---------------------------- MODULE Spec2Model ----------------------------
(***************************************************************************)
(* Model of the pajama CLI login flow (src/pajama/src/oauth.rs):           *)
(* login_oauth_pkce (the orchestrator) and the accept loop spawned by      *)
(* wait_for_oauth_callback (the loopback callback listener), joined by a   *)
(* tokio oneshot channel and bounded by tokio::time::timeout.              *)
(*                                                                         *)
(* Strings the code inspects are sequences of tokens, so that prefix       *)
(* tests and percent-encoding are computed, not assumed.  Option<T> is a   *)
(* sequence of length 0 (None) or 1 (Some).                                *)
(***************************************************************************)
EXTENDS Naturals, Sequences, FiniteSets

(***************************************************************************)
(* Bounds of the model.                                                    *)
(***************************************************************************)
\* Connections the environment makes to the loopback socket in one attempt.
MaxConns == 3

None == <<>>
Some(v) == <<v>>

(***************************************************************************)
(* Values the environment can supply.                                      *)
(***************************************************************************)
\* Outputs of random_base64url(18): the state nonce of the attempt.
Nonces == {"s1", "s2"}
\* Outputs of pkce_verifier().
Verifiers == {"v1", "v2"}
\* Ports the OS may assign to bind(("127.0.0.1", 0)).
Ports == {"49152", "49153"}
\* Authorization codes a callback may carry ("" is `code=`).
Codes == {"abc", "def", ""}
\* Values a callback's state parameter may carry.
StateVals == Nonces
Methods == {"GET", "POST"}
\* "/callback", "/callbackx" and "/favicon.ico" as token sequences.
CallbackPath == <<"/callback">>
Paths == {CallbackPath, <<"/callback", "x">>, <<"/favicon.ico">>}
\* Query strings, as the sequence of (key, decoded value) pairs that
\* url.query_pairs() yields.
Queries ==
    {<<>>}
    \cup {<<<<"state", s>>>> : s \in StateVals}
    \cup {<<<<"code", c>>>> : c \in Codes}
    \cup {<<<<"state", s>>, <<"code", c>>>> : s \in StateVals, c \in Codes}
    \cup {<<<<"state", s>>, <<"state", t>>, <<"code", "abc">>>> :
             s \in StateVals, t \in StateVals}
\* What the read loop leaves in buf[..n]: a request line, or nothing
\* (zero bytes read, or a read error on the first read).
EmptyRequest == [method |-> "", path |-> <<>>, query |-> <<>>]
Requests ==
    [method : Methods, path : Paths, query : Queries] \cup {EmptyRequest}


(***************************************************************************)
(* Pure helpers of the listener (wait_for_oauth_callback, lines 136-173).  *)
(***************************************************************************)
\* str::starts_with on token sequences.
StartsWith(s, prefix) ==
    /\ Len(s) >= Len(prefix)
    /\ SubSeq(s, 1, Len(prefix)) = prefix

\* `target.starts_with("/callback")`: a prefix test, not an equality test.
TargetIsCallback(path) == StartsWith(path, CallbackPath)

\* The loop over url.query_pairs(): each occurrence of key k overwrites the
\* previous one, so the last occurrence wins; None when k never occurs.
RECURSIVE QueryParam(_, _)
QueryParam(q, k) ==
    IF q = <<>> THEN None
    ELSE LET later == QueryParam(Tail(q), k)
         IN  IF later # None THEN later
             ELSE IF Head(q)[1] = k THEN Some(Head(q)[2]) ELSE None

\* Url::parse(&format!("http://127.0.0.1{target}")) for a target that starts
\* with "/callback": scheme and host are fixed and valid, and the path,
\* query and fragment states of the URL parser accept every input, so the
\* Err arm (line 169) is never taken for the requests of this model.
UrlParseOk(req) == TRUE

\* Mutant of StateMatches: only the presence of a state is checked.
StateMatches_AnyPresent(st, expected) == st # None

\* `state.as_deref() != Some(&expected_state)`, negated.
StateMatches(st, expected) == st = Some(expected)

\* Mutant of CodeToSend: an absent code is defaulted to the empty string.
CodeToSend_Defaulted(code) == IF code = None THEN Some("") ELSE code

\* Mutant of CodeToSend: an empty code counts as no code.
CodeToSend_NonEmpty(code) == IF code = Some("") THEN None ELSE code

\* `else if let Some(code) = code`: the code bound by the pattern, if any.
CodeToSend(code) == code

success_html == [title |-> "Login complete", msg |-> "You can close this window."]

\* The messages passed to error_html are literals without &, <, >, " or ',
\* which html_escape therefore leaves unchanged.
error_html(msg) == [title |-> "Login error", msg |-> msg]

NotFoundPage == error_html("Not found.")
StateMismatchPage == error_html("State mismatch. You can close this window and retry.")
MissingCodePage == error_html("Missing authorization code. You can close this window and retry.")
InvalidUrlPage == error_html("Invalid callback URL")

\* Lines 136-173: from the parsed request line to (send_ok, html).
HandleRequest(req, expected) ==
    IF req.method = "GET" /\ TargetIsCallback(req.path)
    THEN IF UrlParseOk(req)
         THEN LET code == QueryParam(req.query, "code")
                  st == QueryParam(req.query, "state")
              IN  IF ~StateMatches(st, expected)
                  THEN [send_ok |-> None, html |-> StateMismatchPage]
                  ELSE IF CodeToSend(code) # None
                       THEN [send_ok |-> CodeToSend(code), html |-> success_html]
                       ELSE [send_ok |-> None, html |-> MissingCodePage]
         ELSE [send_ok |-> None, html |-> InvalidUrlPage]
    ELSE [send_ok |-> None, html |-> NotFoundPage]

\* Mutant of HttpResponse: the status follows the page, 404 for not found.
HttpResponse_StatusByPage(body) ==
    [status |-> IF body = NotFoundPage THEN "404 Not Found" ELSE "200 OK",
     content_type |-> "text/html; charset=utf-8",
     connection |-> "close", body |-> body]

\* Lines 176-180: the response written to the socket.
HttpResponse(body) ==
    [status |-> "200 OK", content_type |-> "text/html; charset=utf-8",
     connection |-> "close", body |-> body]

(***************************************************************************)
(* Pure helpers of the orchestrator (login_oauth_pkce).                    *)
(***************************************************************************)
\* format!("http://127.0.0.1:{}/callback", addr.port()), line 252.
RedirectUri(p) == <<"http", ":", "/", "/", "127.0.0.1", ":", p, "/", "callback">>

\* application/x-www-form-urlencoded byte serialisation, as used both by
\* query_pairs_mut().append_pair and by form_urlencoded::Serializer: the
\* reserved characters of the values of this model are ':' and '/' and ' '.
FormEncodeToken(t) ==
    CASE t = ":" -> "%3A"
      [] t = "/" -> "%2F"
      [] t = " " -> "+"
      [] OTHER -> t

FormEncode(s) == [i \in 1..Len(s) |-> FormEncodeToken(s[i])]

\* pkce_challenge_s256: base64url(SHA-256(verifier)), kept symbolic.
pkce_challenge_s256(v) == <<"S256", v>>

\* Lines 261-268: the query appended to the authorization endpoint.
AuthQuery(cid, ruri, scp, st, chal) ==
    << <<"response_type", <<"code">>>>,
       <<"client_id", FormEncode(<<cid>>)>>,
       <<"redirect_uri", FormEncode(ruri)>>,
       <<"scope", FormEncode(scp)>>,
       <<"state", FormEncode(<<st>>)>>,
       <<"code_challenge", FormEncode(chal)>>,
       <<"code_challenge_method", <<"S256">>>> >>

\* Mutant of TokenForm: redirect_uri rebuilt from the port passed to bind.
TokenForm_BindPort(cd, ruri, ver, cid) ==
    << <<"grant_type", <<"authorization_code">>>>,
       <<"code", FormEncode(<<cd>>)>>,
       <<"redirect_uri", FormEncode(RedirectUri("0"))>>,
       <<"code_verifier", FormEncode(<<ver>>)>>,
       <<"client_id", FormEncode(<<cid>>)>> >>

\* Mutant of TokenForm: the verifier is not the one the caller passed.
TokenForm_NewVerifier(cd, ruri, ver, cid) ==
    << <<"grant_type", <<"authorization_code">>>>,
       <<"code", FormEncode(<<cd>>)>>,
       <<"redirect_uri", FormEncode(ruri)>>,
       <<"code_verifier", FormEncode(<<CHOOSE v \in Verifiers : v # ver>>)>>,
       <<"client_id", FormEncode(<<cid>>)>> >>

\* Lines 291-302: the body of the token request.
TokenForm(cd, ruri, ver, cid) ==
    << <<"grant_type", <<"authorization_code">>>>,
       <<"code", FormEncode(<<cd>>)>>,
       <<"redirect_uri", FormEncode(ruri)>>,
       <<"code_verifier", FormEncode(<<ver>>)>>,
       <<"client_id", FormEncode(<<cid>>)>> >>

(***************************************************************************)
(* Inputs of one login attempt.                                            *)
(***************************************************************************)
\* Values of meta.authorization_endpoint; Url::parse accepts the first only.
AuthEndpoints == {"https://as.example/authorize", "not a url"}
UrlParses(s) == s = "https://as.example/authorize"
TokenEndpoint == "https://as.example/token"
RegistrationEndpoints == {None, Some("https://as.example/register")}
\* cfg.client_id.clone() as passed by main.
ExistingClientIds == {None, Some("cached-client")}
\* The scope argument: space-separated scope tokens.
Scope == <<"projects", ":", "read", " ", "projects", ":", "write">>

\* Replies to the registration request: a transport error, a non-2xx
\* status, a 2xx body without client_id, a 2xx body with client_id.
RegisterReplies ==
    {[transport |-> FALSE, success |-> FALSE, client_id |-> None],
     [transport |-> TRUE, success |-> FALSE, client_id |-> None],
     [transport |-> TRUE, success |-> TRUE, client_id |-> None],
     [transport |-> TRUE, success |-> TRUE, client_id |-> Some("registered-client")]}

\* Replies to the token request; json is None for an unparsable body,
\* else the object's access_token and token_type members (None: absent).
\* An access token is a token sequence, so that its prefix can be tested.
TokenJsons ==
    {None}
    \cup {Some([access_token |-> a, token_type |-> t]) :
             a \in {None, Some(<<"tok123">>), Some(<<"gdm_", "key">>)},
             t \in {None, Some("Bearer"), Some("bearer"), Some("BEARER"), Some("mac")}}
TokenReplies ==
    {[transport |-> FALSE, success |-> FALSE, json |-> None],
     [transport |-> TRUE, success |-> FALSE, json |-> None]}
    \cup {[transport |-> TRUE, success |-> TRUE, json |-> j] : j \in TokenJsons}

\* Mutant of ToLowercase: the token type is compared as it was received.
ToLowercase_Identity(t) == t

\* str::to_lowercase on the token types of this model.
ToLowercase(t) ==
    CASE t = "Bearer" -> "bearer"
      [] t = "BEARER" -> "bearer"
      [] OTHER -> t

\* The error messages of the attempt (anyhow contexts), by the name the
\* specification gives each kind.
RegistrationUnsupportedError == "oauth server does not expose a registration_endpoint"
RegistrationTransportError == "register oauth client"
RegistrationError == "client registration failed"
RegistrationParseError == "parse register response json"
BindError == "bind loopback callback server"
AuthEndpointParseError == "parse authorization_endpoint"
TimeoutError == "timeout waiting for oauth callback"
AcceptError == "failed to accept callback connection"
TokenTransportError == "exchange oauth code for token"
TokenExchangeError == "token exchange failed"
TokenParseError == "parse token response json"
UnexpectedTokenTypeError == "unexpected token_type"

(***************************************************************************)
(* PKCE pair generation (oauth.rs lines 82-98).  A string is a sequence of *)
(* one-character strings, a byte an integer in 0..255.                     *)
(***************************************************************************)
\* Draws of the random source that the model tells apart.
MaxSeed == 63

\* pkce_verifier asks random_base64url for this many bytes (line 90).
VerifierBytes == 64

\* Bytes of a SHA-256 digest.
DigestLen == 32

\* What OsRng.fill_bytes leaves in a buffer of n bytes, for one draw: all
\* zero, all 255, and mixed patterns between.
RandomBytes(seed, n) ==
    [i \in 1..n |-> IF seed = MaxSeed THEN 255
                    ELSE (seed * (7 * i + seed)) % 256]

\* The alphabet of base64::engine::general_purpose::URL_SAFE_NO_PAD.
Base64UrlAlphabet ==
    <<"A", "B", "C", "D", "E", "F", "G", "H", "I", "J", "K", "L", "M",
      "N", "O", "P", "Q", "R", "S", "T", "U", "V", "W", "X", "Y", "Z",
      "a", "b", "c", "d", "e", "f", "g", "h", "i", "j", "k", "l", "m",
      "n", "o", "p", "q", "r", "s", "t", "u", "v", "w", "x", "y", "z",
      "0", "1", "2", "3", "4", "5", "6", "7", "8", "9", "-", "_">>

\* The 6-bit groups of a byte string, most significant bits first; the
\* last group of an incomplete triple is filled with zero bits.
RECURSIVE Base64Sextets(_)
Base64Sextets(b) ==
    IF Len(b) = 0 THEN <<>>
    ELSE IF Len(b) = 1
    THEN <<b[1] \div 4, (b[1] % 4) * 16>>
    ELSE IF Len(b) = 2
    THEN <<b[1] \div 4, ((b[1] % 4) * 16) + (b[2] \div 16), (b[2] % 16) * 4>>
    ELSE <<b[1] \div 4, ((b[1] % 4) * 16) + (b[2] \div 16),
           ((b[2] % 16) * 4) + (b[3] \div 64), b[3] % 64>>
         \o Base64Sextets(SubSeq(b, 4, Len(b)))

\* Mutant of Base64UrlNoPad: the URL_SAFE engine, which pads with '='.
Base64Url_Padded(b) ==
    LET sx == Base64Sextets(b)
        pad == (4 - (Len(sx) % 4)) % 4
    IN  [i \in 1..(Len(sx) + pad) |->
            IF i <= Len(sx) THEN Base64UrlAlphabet[sx[i] + 1] ELSE "="]

\* URL_SAFE_NO_PAD.encode (lines 85 and 97).
Base64UrlNoPad(b) ==
    LET sx == Base64Sextets(b)
    IN  [i \in 1..Len(sx) |-> Base64UrlAlphabet[sx[i] + 1]]

\* random_base64url(bytes) for one draw of the random source.
random_base64url(seed, bytes) == Base64UrlNoPad(RandomBytes(seed, bytes))

\* pkce_verifier (lines 88-91).
pkce_verifier(seed) == random_base64url(seed, VerifierBytes)

\* str::as_bytes on a string over the base64url alphabet: ASCII codes.
AsciiCode(ch) ==
    LET i == CHOOSE k \in 1..Len(Base64UrlAlphabet) : Base64UrlAlphabet[k] = ch
    IN  IF i <= 26 THEN 64 + i
        ELSE IF i <= 52 THEN 96 + (i - 26)
        ELSE IF i <= 62 THEN 47 + (i - 52)
        ELSE IF i = 63 THEN 45
        ELSE 95

AsBytes(str) == [i \in 1..Len(str) |-> AsciiCode(str[i])]

RECURSIVE WeightedSum(_, _, _)
WeightedSum(bytes, i, k) ==
    IF i > Len(bytes) THEN 0
    ELSE bytes[i] * (((i + k) % 7) + 1) + WeightedSum(bytes, i + 1, k)

\* Sha256::new / update / finalize (lines 94-96).  The digest is the
\* library's; the model keeps its width, DigestLen bytes, and that it is a
\* function of the bytes hashed, with a stand-in mixing function.
Sha256(bytes) ==
    [k \in 1..DigestLen |-> (WeightedSum(bytes, 1, k) + 31 * k) % 256]

\* pkce_challenge_s256 (lines 93-98) on a verifier string; the login model
\* above uses the symbolic form of the same function.
S256Challenge(verifier_str) == Base64UrlNoPad(Sha256(AsBytes(verifier_str)))

(***************************************************************************)
(* State.                                                                  *)
(***************************************************************************)
VARIABLES
    meta,                \* OAuthMetadata passed to login_oauth_pkce
    existing_client_id,  \* Option<String> passed to login_oauth_pkce
    no_open,             \* bool passed to login_oauth_pkce
    opc,                 \* position of login_oauth_pkce / main
    client_id,           \* Option: the resolved client id
    reg_requests,        \* registration requests sent so far
    port,                \* Option: addr.port() of the bound listener
    redirect_uri,        \* Option: the redirect_uri local
    state,               \* Option: the state local (expected_state)
    verifier,            \* Option: the verifier local
    challenge,           \* Option: the challenge local
    auth_url,            \* Option: the authorization URL built
    browser,             \* what the browser step did
    code,                \* Option: the code returned by the wait
    token_requests,      \* token requests sent so far
    error,               \* Option: the error the attempt failed with
    login_result,        \* Option: the LoginResult returned
    listener_open,       \* the TcpListener exists (socket bound, not dropped)
    lpc,                 \* position of the spawned accept-loop task
    tx,                  \* the task's `tx`: Some(sender) or None (taken)
    chan,                \* the oneshot slot: None or Some(value sent)
    rx_alive,            \* the receiver has not been dropped
    sent,                \* every value passed to tx.send, in order
    nconn,               \* connections accepted so far
    answered,            \* responses written so far
    cur,                 \* Option: request read from the current connection
    resp,                \* Option: response written to the current connection
    send_ok,             \* the task's `send_ok` for the current connection
    first_valid,         \* history (not in the code): code of the first
                         \* valid callback answered, None while there is none
    expected_state,      \* Option: the task's `expected_state` (moved in)
    socket_open,         \* the current connection's socket is open
    token_reply,         \* Option: the reply received to the token request
    warned,              \* the "does not look like a gdm_ API key" warning
    cfg_client_id,       \* cfg.client_id as stored in the config file
    cfg_access_token,    \* cfg.access_token as stored in the config file
    attempt,             \* number of the current invocation of `login`
    prev_states,         \* history: state nonces of earlier invocations
    prev_verifiers,      \* history: verifiers of earlier invocations
    prev_ports,          \* history: ports bound by earlier invocations
    prior_registered,    \* history: client id an earlier invocation
                         \* obtained by registration, None if none did
    conn_budget,         \* model bound (not in the code): connections the
                         \* environment will still make to the listener
    write_ok,            \* Option: whether write_all to the current
                         \* connection succeeded (the code ignores it)
    stalled,             \* the current connection's peer neither sends the
                         \* header terminator nor closes
    backlog,             \* Option: request of a connection that has
                         \* connected and waits to be accepted
    incoming,            \* Option: the request the accepted connection
                         \* brought from the backlog
    pk_pc,               \* position in the generation of one PKCE pair
    pk_seed,             \* which draw of the random source this pair gets
    pk_buf,              \* Option: `buf` of random_base64url after fill_bytes
    pk_verifier,         \* Option: the string pkce_verifier() returned
    pk_challenge,        \* Option: the string pkce_challenge_s256 returned
    rd_pc,               \* position of the read loop of one connection
    rd_n,                \* `n`: bytes held in buf[..n]
    rd_reads,            \* calls of socket.read that have returned
    rd_why,              \* which `break` ended the loop
    rd_avail,            \* bytes the peer has sent that were not read yet
    rd_sent,             \* bytes the peer has sent in all
    rd_sends,            \* chunks the peer has sent
    rd_term,             \* Option: the position in the peer's stream of
                         \* the last byte of the first CRLFCRLF
    rd_closed,           \* the peer has closed its side
    up_pc,               \* position of `pajama assets upload`
    byte_size,           \* `byte_size`: meta.len(), in KiB
    part_size_mb,        \* Option: --part-size-mb
    part_size,           \* Option: `part_size` of the create request, in KiB
    upload_part_size,    \* Option: `upload_part_size` of the reply, in KiB
    remaining,           \* `remaining`, in KiB
    part_number,         \* `part_number`
    up_buf,              \* Option: length of `buf` of the part read, in KiB
    parts,               \* PUT requests answered with success, in order
    completes,           \* POST .../complete requests sent
    up_error             \* Option: the error the command ended with

loginVars ==
    <<meta, existing_client_id, no_open, opc, client_id, reg_requests, port,
      redirect_uri, state, verifier, challenge, auth_url, browser, code,
      token_requests, error, login_result, listener_open, lpc, tx, chan,
      rx_alive, sent, nconn, answered, cur, resp, send_ok, first_valid,
      expected_state, socket_open, token_reply, warned, cfg_client_id,
      cfg_access_token, attempt, prev_states, prev_verifiers, prev_ports,
      prior_registered, conn_budget, write_ok, stalled, backlog, incoming>>

pkceVars == <<pk_pc, pk_seed, pk_buf, pk_verifier, pk_challenge>>

\* The variables of the other parts of the program, which login leaves alone.
readVars ==
    <<rd_pc, rd_n, rd_reads, rd_why, rd_avail, rd_sent, rd_sends, rd_term,
      rd_closed>>

uploadVars ==
    <<up_pc, byte_size, part_size_mb, part_size, upload_part_size, remaining,
      part_number, up_buf, parts, completes, up_error>>

sideVars == <<pkceVars, readVars, uploadVars>>

vars == <<loginVars, sideVars>>

inputVars == <<meta, existing_client_id, no_open>>
clientVars == <<client_id, reg_requests>>
secretVars == <<state, verifier, challenge>>
connVars == <<nconn, answered, cur, resp, send_ok, first_valid, write_ok>>
stallVars == <<stalled, backlog, incoming>>
chanVars == <<tx, chan, rx_alive, sent>>
replyVars == <<token_reply, warned>>
cfgVars == <<cfg_client_id, cfg_access_token>>
attemptVars == <<attempt, prev_states, prev_verifiers, prev_ports, prior_registered>>
histVars == <<attemptVars, conn_budget>>

Ok(v) == [ok |-> TRUE, val |-> v]
Err(m) == [ok |-> FALSE, val |-> m]

StartLogin(budget) ==
    /\ meta \in [authorization_endpoint : AuthEndpoints,
                 token_endpoint : {TokenEndpoint},
                 registration_endpoint : RegistrationEndpoints]
    /\ cfg_client_id \in ExistingClientIds
    /\ cfg_access_token = None
    /\ existing_client_id = cfg_client_id
    /\ no_open \in BOOLEAN
    /\ opc = "resolve_client"
    /\ client_id = None
    /\ reg_requests = <<>>
    /\ port = None
    /\ redirect_uri = None
    /\ state = None
    /\ verifier = None
    /\ challenge = None
    /\ auth_url = None
    /\ browser = "none"
    /\ code = None
    /\ token_requests = <<>>
    /\ error = None
    /\ login_result = None
    /\ listener_open = FALSE
    /\ lpc = "unspawned"
    /\ tx = None
    /\ chan = None
    /\ rx_alive = FALSE
    /\ sent = <<>>
    /\ nconn = 0
    /\ answered = 0
    /\ cur = None
    /\ resp = None
    /\ send_ok = None
    /\ first_valid = None
    /\ expected_state = None
    /\ socket_open = FALSE
    /\ token_reply = None
    /\ warned = FALSE
    /\ attempt = 1
    /\ prev_states = {}
    /\ prev_verifiers = {}
    /\ prev_ports = {}
    /\ prior_registered = None
    /\ conn_budget = budget
    /\ write_ok = None
    /\ stalled = FALSE
    /\ backlog = None
    /\ incoming = None

\* No PKCE pair is being generated on its own.
PkceIdle ==
    /\ pk_pc = "idle"
    /\ pk_seed = 0
    /\ pk_buf = None
    /\ pk_verifier = None
    /\ pk_challenge = None

\* No connection is being read byte by byte.
ReadIdle ==
    /\ rd_pc = "idle"
    /\ rd_n = 0
    /\ rd_reads = 0
    /\ rd_why = "none"
    /\ rd_avail = 0
    /\ rd_sent = 0
    /\ rd_sends = 0
    /\ rd_term = None
    /\ rd_closed = FALSE

\* No upload is running.
UploadIdle ==
    /\ up_pc = "idle"
    /\ byte_size = 0
    /\ part_size_mb = None
    /\ part_size = None
    /\ upload_part_size = None
    /\ remaining = 0
    /\ part_number = 1
    /\ up_buf = None
    /\ parts = <<>>
    /\ completes = 0
    /\ up_error = None

SideIdle == PkceIdle /\ ReadIdle /\ UploadIdle

Start(budget) == StartLogin(budget) /\ SideIdle

\* The state after construction: one invocation of `pajama login`.
Init == Start(MaxConns)

(***************************************************************************)
(* The orchestrator: login_oauth_pkce, called from main.                   *)
(***************************************************************************)
\* Mutant of Fail: the error is recorded but the function does not return.
Fail_NoReturn(msg) ==
    /\ error' = Some(msg)
    /\ opc' = opc

\* Mutant of Fail: the error is recorded and the attempt starts over.
Fail_Retry(msg) ==
    /\ error' = Some(msg)
    /\ opc' = "resolve_client"

\* `return Err(..)` / `?` in login_oauth_pkce: main propagates it with `?`.
Fail(msg) ==
    /\ error' = Some(msg)
    /\ opc' = "failed"

\* Mutant of UseExistingClient: the cached id is set aside and a client is
\* registered anew.
UseExistingClient_Reregister ==
    /\ opc = "resolve_client"
    /\ existing_client_id # None
    /\ reg_requests' = Append(reg_requests,
                              [url |-> "https://as.example/register",
                               client_name |-> "pajama-cli",
                               redirect_uris |-> <<>>])
    /\ client_id' = Some("registered-client")
    /\ opc' = "bind"
    /\ UNCHANGED <<inputVars, sideVars, stallVars, cfgVars, histVars, expected_state, socket_open,
                   replyVars, port, redirect_uri, secretVars,
                   auth_url, browser, code, token_requests, error,
                   login_result, listener_open, lpc, chanVars, connVars>>

\* Lines 238-239: a cached client id is used as it is.
UseExistingClient ==
    /\ opc = "resolve_client"
    /\ existing_client_id # None
    /\ client_id' = existing_client_id
    /\ opc' = "bind"
    /\ UNCHANGED <<inputVars, sideVars, stallVars, cfgVars, histVars, expected_state, socket_open,
                   replyVars, reg_requests, port, redirect_uri, secretVars,
                   auth_url, browser, code, token_requests, error,
                   login_result, listener_open, lpc, chanVars, connVars>>

\* Mutant of RegistrationUnsupported: the check is made after the bind.
RegistrationUnsupported_AfterBind ==
    /\ opc = "resolve_client"
    /\ existing_client_id = None
    /\ meta.registration_endpoint = None
    /\ \E p \in Ports :
          /\ port' = Some(p)
          /\ redirect_uri' = Some(RedirectUri(p))
    /\ Fail(RegistrationUnsupportedError)
    /\ UNCHANGED <<inputVars, sideVars, stallVars, cfgVars, histVars, expected_state, socket_open,
                   replyVars, clientVars, secretVars,
                   auth_url, browser, code, token_requests, login_result,
                   listener_open, lpc, chanVars, connVars>>

\* Lines 241-244: no cached id and no registration_endpoint.
RegistrationUnsupported ==
    /\ opc = "resolve_client"
    /\ existing_client_id = None
    /\ meta.registration_endpoint = None
    /\ Fail(RegistrationUnsupportedError)
    /\ UNCHANGED <<inputVars, sideVars, stallVars, cfgVars, histVars, expected_state, socket_open,
                   replyVars, clientVars, port, redirect_uri, secretVars,
                   auth_url, browser, code, token_requests, login_result,
                   listener_open, lpc, chanVars, connVars>>

\* Line 245 and register_client (lines 55-80): one POST, no retry.
RegisterClient ==
    /\ opc = "resolve_client"
    /\ existing_client_id = None
    /\ meta.registration_endpoint # None
    /\ reg_requests' = Append(reg_requests,
                              [url |-> meta.registration_endpoint[1],
                               client_name |-> "pajama-cli",
                               redirect_uris |-> <<>>])
    /\ \E reply \in RegisterReplies :
          IF ~reply.transport
          THEN Fail(RegistrationTransportError) /\ UNCHANGED client_id
          ELSE IF ~reply.success
          THEN Fail(RegistrationError) /\ UNCHANGED client_id
          ELSE IF reply.client_id = None
          THEN Fail(RegistrationParseError) /\ UNCHANGED client_id
          ELSE /\ client_id' = reply.client_id
               /\ opc' = "bind"
               /\ UNCHANGED error
    /\ UNCHANGED <<inputVars, sideVars, stallVars, cfgVars, histVars, expected_state, socket_open,
                   replyVars, port, redirect_uri, secretVars, auth_url,
                   browser, code, token_requests, login_result,
                   listener_open, lpc, chanVars, connVars>>

\* Lines 248-252: bind an OS-assigned loopback port and derive redirect_uri.
BindListener ==
    /\ opc = "bind"
    /\ \E p \in Ports :
          /\ port' = Some(p)
          /\ redirect_uri' = Some(RedirectUri(p))
    /\ listener_open' = TRUE
    /\ opc' = "secrets"
    /\ UNCHANGED <<inputVars, sideVars, stallVars, cfgVars, histVars, expected_state, socket_open,
                   replyVars, clientVars, secretVars, auth_url, browser, code,
                   token_requests, error, login_result, lpc, chanVars,
                   connVars>>

\* Lines 248-250: bind fails.
BindFails ==
    /\ opc = "bind"
    /\ Fail(BindError)
    /\ UNCHANGED <<inputVars, sideVars, stallVars, cfgVars, histVars, expected_state, socket_open,
                   replyVars, clientVars, port, redirect_uri, secretVars,
                   auth_url, browser, code, token_requests, login_result,
                   listener_open, lpc, chanVars, connVars>>

\* Mutant of GenerateSecrets: the state nonce is a fixed string.
GenerateSecrets_FixedState ==
    /\ opc = "secrets"
    /\ state' = Some("s1")
    /\ \E v \in Verifiers \ prev_verifiers :
          /\ verifier' = Some(v)
          /\ challenge' = Some(pkce_challenge_s256(v))
    /\ opc' = "auth_url"
    /\ UNCHANGED <<inputVars, sideVars, stallVars, cfgVars, histVars, expected_state, socket_open,
                   replyVars, clientVars, port, redirect_uri, auth_url,
                   browser, code, token_requests, error, login_result,
                   listener_open, lpc, chanVars, connVars>>

\* Lines 254-256: state, verifier and challenge of the attempt.  The OS
\* random source is taken as ideal: a draw repeats no earlier draw.
GenerateSecrets ==
    /\ opc = "secrets"
    /\ \E s \in Nonces \ prev_states : state' = Some(s)
    /\ \E v \in Verifiers \ prev_verifiers :
          /\ verifier' = Some(v)
          /\ challenge' = Some(pkce_challenge_s256(v))
    /\ opc' = "auth_url"
    /\ UNCHANGED <<inputVars, sideVars, stallVars, cfgVars, histVars, expected_state, socket_open,
                   replyVars, clientVars, port, redirect_uri, auth_url,
                   browser, code, token_requests, error, login_result,
                   listener_open, lpc, chanVars, connVars>>

\* Lines 258-269: parse the authorization endpoint and append the query.
\* On the parse error the function returns and `listener` is dropped.
BuildAuthUrl ==
    /\ opc = "auth_url"
    /\ IF UrlParses(meta.authorization_endpoint)
       THEN /\ auth_url' = Some([endpoint |-> meta.authorization_endpoint,
                                 query |-> AuthQuery(client_id[1],
                                                     redirect_uri[1], Scope,
                                                     state[1], challenge[1])])
            /\ opc' = "browser"
            /\ UNCHANGED <<error, listener_open>>
       ELSE /\ Fail(AuthEndpointParseError)
            /\ listener_open' = FALSE
            /\ UNCHANGED auth_url
    /\ UNCHANGED <<inputVars, sideVars, stallVars, cfgVars, histVars, expected_state, socket_open,
                   replyVars, clientVars, port, redirect_uri, secretVars,
                   browser, code, token_requests, login_result, lpc,
                   chanVars, connVars>>

\* Mutant of LaunchBrowser: a browser that cannot be opened fails the login.
LaunchBrowser_OpenFailureFatal ==
    /\ opc = "browser"
    /\ IF no_open
       THEN browser' = "printed" /\ opc' = "call_wait" /\ UNCHANGED error
       ELSE \E opened \in BOOLEAN :
               IF opened
               THEN browser' = "opened" /\ opc' = "call_wait" /\ UNCHANGED error
               ELSE browser' = "none" /\ Fail("open browser")
    /\ UNCHANGED <<inputVars, sideVars, stallVars, cfgVars, histVars, expected_state, socket_open,
                   replyVars, clientVars, port, redirect_uri, secretVars,
                   auth_url, code, token_requests, login_result,
                   listener_open, lpc, chanVars, connVars>>

\* Lines 271-285: print the URL, or open the browser and print on failure.
LaunchBrowser ==
    /\ opc = "browser"
    /\ IF no_open
       THEN browser' = "printed"
       ELSE \E opened \in BOOLEAN :
               browser' = IF opened THEN "opened" ELSE "open_failed_printed"
    /\ opc' = "call_wait"
    /\ UNCHANGED <<inputVars, sideVars, stallVars, cfgVars, histVars, expected_state, socket_open,
                   replyVars, clientVars, port, redirect_uri, secretVars,
                   auth_url, code, token_requests, error, login_result,
                   listener_open, lpc, chanVars, connVars>>

\* Lines 287, 104-107: wait_for_oauth_callback creates the oneshot channel
\* and spawns the accept loop, which owns the listener and the sender.
SpawnListener ==
    /\ opc = "call_wait"
    /\ tx' = Some("tx")
    /\ expected_state' = state
    /\ rx_alive' = TRUE
    /\ lpc' = "accept"
    /\ opc' = "await"
    /\ UNCHANGED <<inputVars, sideVars, stallVars, cfgVars, histVars, socket_open, replyVars, clientVars, port, redirect_uri, secretVars,
                   auth_url, browser, code, token_requests, error,
                   login_result, listener_open, chan, sent, connVars>>

(***************************************************************************)
(* The accept loop: the task spawned at line 106.                          *)
(***************************************************************************)
\* A callback as section 4.4 step 4 defines it: GET, path exactly
\* /callback, state equal to the expected state, code present.
IsValidCallback(req, expected) ==
    /\ req.method = "GET"
    /\ req.path = CallbackPath
    /\ QueryParam(req.query, "state") = Some(expected)
    /\ QueryParam(req.query, "code") # None

\* Line 109: listener.accept() yields a connection: the one waiting in the
\* backlog if there is one, else one the environment makes now.
Accept ==
    /\ lpc = "accept"
    /\ IF backlog # None
       THEN UNCHANGED conn_budget
       ELSE conn_budget > 0 /\ conn_budget' = conn_budget - 1
    /\ incoming' = backlog
    /\ backlog' = None
    /\ stalled' = FALSE
    /\ nconn' = nconn + 1
    /\ cur' = None
    /\ resp' = None
    /\ send_ok' = None
    /\ write_ok' = None
    /\ socket_open' = TRUE
    /\ lpc' = "read"
    /\ UNCHANGED <<inputVars, sideVars, cfgVars, attemptVars, expected_state, replyVars, opc, clientVars, port, redirect_uri, secretVars,
                   auth_url, browser, code, token_requests, error,
                   login_result, listener_open, chanVars, answered,
                   first_valid>>

\* Lines 110-115: listener.accept() fails; the error is sent and the task
\* returns, dropping the listener.  A send to a dropped receiver is lost.
AcceptFails ==
    /\ lpc = "accept"
    /\ IF tx # None
       THEN /\ sent' = Append(sent, Err(AcceptError))
            /\ chan' = IF rx_alive THEN Some(Err(AcceptError)) ELSE chan
            /\ tx' = None
       ELSE UNCHANGED <<sent, chan, tx>>
    /\ lpc' = "returned"
    /\ listener_open' = FALSE
    /\ UNCHANGED <<inputVars, sideVars, stallVars, cfgVars, histVars, expected_state, socket_open,
                   replyVars, opc, clientVars, port, redirect_uri, secretVars,
                   auth_url, browser, code, token_requests, error,
                   login_result, rx_alive, connVars>>

\* Lines 117-140: the read loop ends and the request line is split.  It
\* does not end while the peer neither sends the terminator nor closes.
ReadRequest ==
    /\ lpc = "read"
    /\ ~stalled
    /\ IF incoming # None
       THEN cur' = incoming
       ELSE \E r \in Requests : cur' = Some(r)
    /\ lpc' = "respond"
    /\ UNCHANGED <<inputVars, sideVars, stallVars, cfgVars, histVars, expected_state, socket_open,
                   replyVars, opc, clientVars, port, redirect_uri, secretVars,
                   auth_url, browser, code, token_requests, error,
                   login_result, listener_open, chanVars, nconn, answered,
                   resp, send_ok, first_valid, write_ok>>

\* Lines 142-182: classify the request, write the response, shut down.
\* The results of write_all and shutdown are dropped (`let _ =`).
\* first_valid only records what was answered; no action reads it.
Respond ==
    /\ lpc = "respond"
    /\ LET h == HandleRequest(cur[1], expected_state[1])
       IN  /\ send_ok' = h.send_ok
           /\ resp' = Some(HttpResponse(h.html))
    /\ \E w \in BOOLEAN : write_ok' = Some(w)
    /\ answered' = answered + 1
    /\ socket_open' = FALSE
    /\ first_valid' =
          IF first_valid = None /\ IsValidCallback(cur[1], expected_state[1])
          THEN QueryParam(cur[1].query, "code")
          ELSE first_valid
    /\ lpc' = "finish"
    /\ UNCHANGED <<inputVars, sideVars, stallVars, cfgVars, histVars, expected_state, replyVars, opc, clientVars, port, redirect_uri, secretVars,
                   auth_url, browser, code, token_requests, error,
                   login_result, listener_open, chanVars, nconn, cur>>

\* Mutant of AfterDelivery: the `return` after the send is missing.
AfterDelivery_KeepLooping == "accept"

\* Line 188: `return` ends the task once the code has been handed over.
AfterDelivery == "returned"

\* Mutant of FinishConnection: the sender is not taken and the loop goes on,
\* so each further valid callback sends again.
FinishConnection_SendAgain ==
    /\ lpc = "finish"
    /\ IF send_ok # None
       THEN /\ sent' = Append(sent, Ok(send_ok[1]))
            /\ chan' = IF rx_alive THEN Some(Ok(send_ok[1])) ELSE chan
       ELSE UNCHANGED <<sent, chan>>
    /\ lpc' = "accept"
    /\ UNCHANGED <<inputVars, sideVars, stallVars, cfgVars, histVars, expected_state, socket_open,
                   replyVars, opc, clientVars, port, redirect_uri, secretVars,
                   auth_url, browser, code, token_requests, error,
                   login_result, listener_open, tx, rx_alive, connVars>>

\* Mutant of FinishConnection: a rejected connection fails the attempt.
FinishConnection_FailFast ==
    /\ lpc = "finish"
    /\ IF tx # None
       THEN /\ sent' = Append(sent, IF send_ok # None THEN Ok(send_ok[1])
                                    ELSE Err("callback rejected"))
            /\ chan' = IF rx_alive
                       THEN Some(IF send_ok # None THEN Ok(send_ok[1])
                                 ELSE Err("callback rejected"))
                       ELSE chan
            /\ tx' = None
       ELSE UNCHANGED <<sent, chan, tx>>
    /\ lpc' = "returned"
    /\ listener_open' = FALSE
    /\ UNCHANGED <<inputVars, sideVars, stallVars, cfgVars, histVars, expected_state, socket_open,
                   replyVars, opc, clientVars, port, redirect_uri, secretVars,
                   auth_url, browser, code, token_requests, error,
                   login_result, rx_alive, connVars>>

\* Mutant of FinishConnection: the code is handed over only when the
\* response could be written.
FinishConnection_OnlyIfWritten ==
    /\ lpc = "finish"
    /\ IF send_ok # None
       THEN /\ IF tx # None /\ write_ok = Some(TRUE)
               THEN /\ sent' = Append(sent, Ok(send_ok[1]))
                    /\ chan' = IF rx_alive THEN Some(Ok(send_ok[1])) ELSE chan
                    /\ tx' = None
               ELSE UNCHANGED <<sent, chan, tx>>
            /\ lpc' = AfterDelivery
            /\ listener_open' = (AfterDelivery # "returned")
       ELSE /\ lpc' = "accept"
            /\ UNCHANGED <<sent, chan, tx, listener_open>>
    /\ UNCHANGED <<inputVars, sideVars, stallVars, cfgVars, histVars, expected_state, socket_open,
                   replyVars, opc, clientVars, port, redirect_uri, secretVars,
                   auth_url, browser, code, token_requests, error,
                   login_result, rx_alive, connVars>>

\* Lines 184-189: hand the code over and return, or loop to accept again.
\* The listener is dropped exactly when the task returns.
FinishConnection ==
    /\ lpc = "finish"
    /\ IF send_ok # None
       THEN /\ IF tx # None
               THEN /\ sent' = Append(sent, Ok(send_ok[1]))
                    /\ chan' = IF rx_alive THEN Some(Ok(send_ok[1])) ELSE chan
                    /\ tx' = None
               ELSE UNCHANGED <<sent, chan, tx>>
            /\ lpc' = AfterDelivery
            /\ listener_open' = (AfterDelivery # "returned")
       ELSE /\ lpc' = "accept"
            /\ UNCHANGED <<sent, chan, tx, listener_open>>
    /\ UNCHANGED <<inputVars, sideVars, stallVars, cfgVars, histVars, expected_state, socket_open,
                   replyVars, opc, clientVars, port, redirect_uri, secretVars,
                   auth_url, browser, code, token_requests, error,
                   login_result, rx_alive, connVars>>

(***************************************************************************)
(* The orchestrator's wait (lines 193-198) and the token exchange.         *)
(***************************************************************************)
\* timeout(..) polls rx first: a value already sent is received.
ReceiveCallback ==
    /\ opc = "await"
    /\ chan # None
    /\ IF chan[1].ok
       THEN /\ code' = Some(chan[1].val)
            /\ opc' = "exchange"
            /\ UNCHANGED error
       ELSE /\ Fail(chan[1].val)
            /\ UNCHANGED code
    /\ chan' = None
    /\ rx_alive' = FALSE
    /\ UNCHANGED <<inputVars, sideVars, stallVars, cfgVars, histVars, expected_state, socket_open,
                   replyVars, clientVars, port, redirect_uri, secretVars,
                   auth_url, browser, token_requests, login_result,
                   listener_open, lpc, tx, sent, connVars>>

\* Mutant of Timeout: on the timeout the exchange goes ahead with an empty
\* code.
Timeout_ExchangeAnyway ==
    /\ opc = "await"
    /\ chan = None
    /\ code' = Some("")
    /\ opc' = "exchange"
    /\ rx_alive' = FALSE
    /\ UNCHANGED <<inputVars, sideVars, stallVars, cfgVars, histVars, expected_state, socket_open,
                   replyVars, clientVars, port, redirect_uri, secretVars,
                   auth_url, browser, error, token_requests, login_result,
                   listener_open, lpc, tx, chan, sent, connVars>>

\* Mutant of Timeout: the deadline is looked at only between connections.
Timeout_BetweenConnections ==
    /\ opc = "await"
    /\ chan = None
    /\ lpc = "accept"
    /\ Fail(TimeoutError)
    /\ rx_alive' = FALSE
    /\ UNCHANGED <<inputVars, sideVars, stallVars, cfgVars, histVars, expected_state, socket_open,
                   replyVars, clientVars, port, redirect_uri, secretVars,
                   auth_url, browser, code, token_requests, login_result,
                   listener_open, lpc, tx, chan, sent, connVars>>

\* The 180 s elapse with nothing in the channel: rx is dropped, the error
\* propagates with `?`.  The spawned task is detached and keeps running.
Timeout ==
    /\ opc = "await"
    /\ chan = None
    /\ Fail(TimeoutError)
    /\ rx_alive' = FALSE
    /\ UNCHANGED <<inputVars, sideVars, stallVars, cfgVars, histVars, expected_state, socket_open,
                   replyVars, clientVars, port, redirect_uri, secretVars,
                   auth_url, browser, code, token_requests, login_result,
                   listener_open, lpc, tx, chan, sent, connVars>>

\* Line 322: `token.access_token.starts_with("gdm_")`.
LooksLikeApiKey(tok) == StartsWith(tok, <<"gdm_">>)

\* Lines 290-338: one POST to the token endpoint and its reply.
ExchangeToken ==
    /\ opc = "exchange"
    /\ token_requests' =
          Append(token_requests,
                 [url |-> meta.token_endpoint,
                  body |-> TokenForm(code[1], redirect_uri[1], verifier[1],
                                     client_id[1])])
    /\ \E reply \in TokenReplies :
        /\ token_reply' = Some(reply)
        /\
          IF ~reply.transport
          THEN Fail(TokenTransportError) /\ UNCHANGED login_result
          ELSE IF ~reply.success
          THEN Fail(TokenExchangeError) /\ UNCHANGED login_result
          ELSE IF \/ reply.json = None
                  \/ reply.json[1].access_token = None
                  \/ reply.json[1].token_type = None
          THEN Fail(TokenParseError) /\ UNCHANGED login_result
          ELSE IF ToLowercase(reply.json[1].token_type[1]) # "bearer"
          THEN Fail(UnexpectedTokenTypeError) /\ UNCHANGED login_result
          ELSE /\ login_result' =
                     Some([access_token |-> reply.json[1].access_token[1],
                           token_type |-> reply.json[1].token_type[1],
                           client_id |-> client_id[1]])
               /\ opc' = "done"
               /\ UNCHANGED error
    /\ warned' = (opc' = "done" /\ ~LooksLikeApiKey(login_result'[1].access_token))
    /\ UNCHANGED <<inputVars, sideVars, stallVars, cfgVars, histVars, expected_state, socket_open,
                   clientVars, port, redirect_uri, secretVars,
                   auth_url, browser, code, listener_open, lpc, chanVars,
                   connVars>>

\* main returns (main.rs lines 359-373): after a successful login the
\* client id and the token are stored in the config file; after a failure
\* `?` returns before anything is stored.  The runtime is then dropped,
\* which cancels a still-running accept loop at its next await point and
\* drops the listener and the socket it owns.
MainReturns ==
    /\ opc \in {"done", "failed"}
    /\ lpc # "finish"
    /\ IF opc = "done"
       THEN /\ cfg_client_id' = Some(login_result[1].client_id)
            /\ cfg_access_token' = Some(login_result[1].access_token)
       ELSE UNCHANGED cfgVars
    /\ opc' = "exited"
    /\ lpc' = IF lpc \in {"accept", "read", "respond"} THEN "aborted" ELSE lpc
    /\ tx' = IF lpc \in {"accept", "read", "respond"} THEN None ELSE tx
    /\ listener_open' = FALSE
    /\ socket_open' = FALSE
    /\ backlog' = None
    /\ UNCHANGED <<inputVars, sideVars, stalled, incoming, histVars, expected_state,
                   replyVars, clientVars, port, redirect_uri, secretVars,
                   auth_url, browser, code, token_requests, error,
                   login_result, chan, rx_alive, sent, connVars>>

Next ==
    \/ UseExistingClient
    \/ RegistrationUnsupported
    \/ RegisterClient
    \/ BindListener
    \/ BindFails
    \/ GenerateSecrets
    \/ BuildAuthUrl
    \/ LaunchBrowser
    \/ SpawnListener
    \/ Accept
    \/ AcceptFails
    \/ ReadRequest
    \/ Respond
    \/ FinishConnection
    \/ ReceiveCallback
    \/ Timeout
    \/ ExchangeToken
    \/ MainReturns

Spec == Init /\ [][Next]_vars

(***************************************************************************)
(* Repeated invocations of `pajama login` (main.rs lines 344-373): each    *)
(* is a new process that loads the config file and starts from scratch.    *)
(***************************************************************************)
\* Invocations in one run: one per nonce the model can draw.
MaxAttempts == Cardinality(Nonces)

\* The previous process has exited; `login` is invoked again.  Nothing but
\* the config file is carried over: existing_client_id is cfg.client_id.
StartNextAttempt ==
    /\ opc = "exited"
    /\ attempt < MaxAttempts
    /\ attempt' = attempt + 1
    /\ prev_states' = prev_states \cup {state[i] : i \in 1..Len(state)}
    /\ prev_verifiers' = prev_verifiers \cup {verifier[i] : i \in 1..Len(verifier)}
    /\ prev_ports' = prev_ports \cup {port[i] : i \in 1..Len(port)}
    /\ prior_registered' =
          IF reg_requests # <<>> /\ client_id # None THEN client_id
          ELSE prior_registered
    /\ existing_client_id' = cfg_client_id
    /\ opc' = "resolve_client"
    /\ client_id' = None
    /\ reg_requests' = <<>>
    /\ port' = None
    /\ redirect_uri' = None
    /\ state' = None
    /\ verifier' = None
    /\ challenge' = None
    /\ auth_url' = None
    /\ browser' = "none"
    /\ code' = None
    /\ token_requests' = <<>>
    /\ error' = None
    /\ login_result' = None
    /\ lpc' = "unspawned"
    /\ tx' = None
    /\ chan' = None
    /\ rx_alive' = FALSE
    /\ sent' = <<>>
    /\ nconn' = 0
    /\ answered' = 0
    /\ cur' = None
    /\ resp' = None
    /\ send_ok' = None
    /\ first_valid' = None
    /\ write_ok' = None
    /\ expected_state' = None
    /\ token_reply' = None
    /\ warned' = FALSE
    /\ UNCHANGED <<meta, no_open, cfgVars, listener_open, socket_open,
                   conn_budget, sideVars, stallVars>>

NextLogins == Next \/ StartNextAttempt

\* Connections made to the listeners of one run of repeated invocations.
LoginsConns == MaxConns - 2

InitLogins == Start(LoginsConns)

SpecLogins == InitLogins /\ [][NextLogins]_vars

(***************************************************************************)
(* The wait under connections that stall or queue up.  The accept loop     *)
(* handles one connection at a time (lines 108-190 are one loop body), so  *)
(* a connection made while another is being read waits in the listen       *)
(* backlog; the only clock is the 180 s timeout of lines 193-197.          *)
(***************************************************************************)
\* Stray connections the environment makes in a run with stalls; the
\* browser's callback comes on top of them.
WaitConns == MaxConns - 2

\* The callback the authorization server redirects the browser to.
ValidCallback ==
    [method |-> "GET", path |-> CallbackPath,
     query |-> <<<<"code", "abc">>, <<"state", expected_state[1]>>>>]

\* The peer of the connection being read sends no header terminator and
\* does not close: socket.read (line 121) stays pending.
Stall ==
    /\ lpc = "read"
    /\ ~stalled
    /\ incoming = None
    /\ stalled' = TRUE
    /\ UNCHANGED <<inputVars, sideVars, backlog, incoming, cfgVars, histVars,
                   expected_state, socket_open, replyVars, opc, clientVars,
                   port, redirect_uri, secretVars, auth_url, browser, code,
                   token_requests, error, login_result, listener_open, lpc,
                   chanVars, connVars>>

\* While the orchestrator waits, the browser connects, once, with the
\* valid callback; the loop is busy, so the connection waits in the backlog.
ValidCallbackConnects ==
    /\ opc = "await"
    /\ listener_open
    /\ lpc \in {"read", "respond", "finish"}
    /\ backlog = None
    /\ incoming = None
    /\ backlog' = Some(ValidCallback)
    /\ UNCHANGED <<inputVars, sideVars, stalled, incoming, cfgVars,
                   histVars, expected_state, socket_open, replyVars, opc,
                   clientVars, port, redirect_uri, secretVars, auth_url,
                   browser, code, token_requests, error, login_result,
                   listener_open, lpc, chanVars, connVars>>

NextWait == Next \/ Stall \/ ValidCallbackConnects

InitWait == Start(WaitConns)

\* The timer of tokio::time::timeout fires, and the timeout future, which
\* polls rx first, completes once a value is in the channel.
FairWait == WF_vars(Timeout) /\ WF_vars(ReceiveCallback)

SpecWait == InitWait /\ [][NextWait]_vars /\ FairWait

(***************************************************************************)
(* The other parts of the program, each run on its own: login is not       *)
(* invoked, its variables stay as they are.                                *)
(***************************************************************************)
LoginIdle ==
    /\ StartLogin(0)
    /\ meta = [authorization_endpoint |-> "https://as.example/authorize",
               token_endpoint |-> TokenEndpoint,
               registration_endpoint |-> None]
    /\ cfg_client_id = None
    /\ no_open = FALSE

(***************************************************************************)
(* Generation of one PKCE pair: pkce_verifier() then pkce_challenge_s256,  *)
(* as lines 255-256 call them.                                             *)
(***************************************************************************)
InitPkce ==
    /\ LoginIdle
    /\ pk_pc = "fill"
    /\ pk_seed \in 0..MaxSeed
    /\ pk_buf = None
    /\ pk_verifier = None
    /\ pk_challenge = None
    /\ ReadIdle
    /\ UploadIdle

\* Lines 83-84: the buffer is allocated and filled by the random source.
PkceFill ==
    /\ pk_pc = "fill"
    /\ pk_buf' = Some(RandomBytes(pk_seed, VerifierBytes))
    /\ pk_pc' = "encode"
    /\ UNCHANGED <<loginVars, readVars, uploadVars, pk_seed, pk_verifier, pk_challenge>>

\* Line 85: the buffer is encoded; this is the verifier.
PkceEncode ==
    /\ pk_pc = "encode"
    /\ pk_verifier' = Some(Base64UrlNoPad(pk_buf[1]))
    /\ pk_pc' = "challenge"
    /\ UNCHANGED <<loginVars, readVars, uploadVars, pk_seed, pk_buf, pk_challenge>>

\* Lines 93-98: the challenge is computed from the verifier string.
PkceChallenge ==
    /\ pk_pc = "challenge"
    /\ pk_challenge' = Some(S256Challenge(pk_verifier[1]))
    /\ pk_pc' = "done"
    /\ UNCHANGED <<loginVars, readVars, uploadVars, pk_seed, pk_buf, pk_verifier>>

NextPkce == PkceFill \/ PkceEncode \/ PkceChallenge

SpecPkce == InitPkce /\ [][NextPkce]_vars

(***************************************************************************)
(* The read loop of one accepted connection (oauth.rs lines 117-134), byte *)
(* counts exact.  buf[..n] is always the first n bytes of what the peer    *)
(* has sent, so the window test of line 125 finds a terminator exactly     *)
(* when the first CRLFCRLF of the stream ends at or before byte n.         *)
(***************************************************************************)
\* Reads and peer chunks followed for one connection.
MaxReads == 4
MaxSends == 3

\* `vec![0u8; 16 * 1024]`, line 118.
BufLen == 16 * 1024

\* Sizes of the chunks a peer sends.
ChunkSizes == {1, 3, 4, 100, BufLen - 4, BufLen, BufLen + 1000}

Min(a, b) == IF a <= b THEN a ELSE b

\* Mutant of TerminatorSeen: only the last four bytes read are compared.
TerminatorSeen_TailOnly(n, term) ==
    /\ n >= 4
    /\ term # None
    /\ term[1] = n

\* Line 125: `n >= 4 && buf[..n].windows(4).any(|w| w == b"\r\n\r\n")`.
TerminatorSeen(n, term) ==
    /\ n >= 4
    /\ term # None
    /\ term[1] <= n

InitRead ==
    /\ LoginIdle
    /\ PkceIdle
    /\ UploadIdle
    /\ rd_pc = "reading"
    /\ rd_n = 0
    /\ rd_reads = 0
    /\ rd_why = "none"
    /\ rd_avail = 0
    /\ rd_sent = 0
    /\ rd_sends = 0
    /\ rd_term = None
    /\ rd_closed = FALSE

\* The peer sends a chunk, in which the first CRLFCRLF of its stream may
\* end (at the chunk's first byte, at its last, or four bytes before that).
PeerSends ==
    /\ rd_pc # "idle"
    /\ ~rd_closed
    /\ rd_sends < MaxSends
    /\ \E k \in ChunkSizes :
          /\ rd_avail' = rd_avail + k
          /\ rd_sent' = rd_sent + k
          /\ \/ UNCHANGED rd_term
             \/ /\ rd_term = None
                /\ \E t \in {rd_sent + 1, rd_sent + k, rd_sent + k - 4} :
                      /\ t > rd_sent
                      /\ t >= 4
                      /\ rd_term' = Some(t)
    /\ rd_sends' = rd_sends + 1
    /\ UNCHANGED <<loginVars, pkceVars, uploadVars, rd_pc, rd_n, rd_reads, rd_why,
                   rd_closed>>

\* The peer closes its side of the connection.
PeerCloses ==
    /\ rd_pc # "idle"
    /\ ~rd_closed
    /\ rd_closed' = TRUE
    /\ UNCHANGED <<loginVars, pkceVars, uploadVars, rd_pc, rd_n, rd_reads, rd_why,
                   rd_avail, rd_sent, rd_sends, rd_term>>

\* Lines 121-130: socket.read(&mut buf[n..]) returns Ok(read_n), with
\* 1 <= read_n <= buf.len() - n: a single byte or all that fits.
ReadSome ==
    /\ rd_pc = "reading"
    /\ rd_reads < MaxReads
    /\ rd_avail > 0
    /\ \E read_n \in {1, Min(rd_avail, BufLen - rd_n)} :
          /\ rd_n' = rd_n + read_n
          /\ rd_avail' = rd_avail - read_n
          /\ IF TerminatorSeen(rd_n + read_n, rd_term)
             THEN rd_pc' = "stopped" /\ rd_why' = "terminator"
             ELSE IF rd_n + read_n >= BufLen
             THEN rd_pc' = "stopped" /\ rd_why' = "full"
             ELSE UNCHANGED <<rd_pc, rd_why>>
    /\ rd_reads' = rd_reads + 1
    /\ UNCHANGED <<loginVars, pkceVars, uploadVars, rd_sent, rd_sends, rd_term, rd_closed>>

\* Line 122: Ok(0), the peer has closed and everything was read.
ReadEof ==
    /\ rd_pc = "reading"
    /\ rd_avail = 0
    /\ rd_closed
    /\ rd_pc' = "stopped"
    /\ rd_why' = "closed"
    /\ rd_reads' = rd_reads + 1
    /\ UNCHANGED <<loginVars, pkceVars, uploadVars, rd_n, rd_avail, rd_sent, rd_sends,
                   rd_term, rd_closed>>

\* Line 132: Err(_), the read fails.
ReadFails ==
    /\ rd_pc = "reading"
    /\ rd_pc' = "stopped"
    /\ rd_why' = "error"
    /\ rd_reads' = rd_reads + 1
    /\ UNCHANGED <<loginVars, pkceVars, uploadVars, rd_n, rd_avail, rd_sent, rd_sends,
                   rd_term, rd_closed>>

NextRead == PeerSends \/ PeerCloses \/ ReadSome \/ ReadEof \/ ReadFails

SpecRead == InitRead /\ [][NextRead]_vars

(***************************************************************************)
(* `pajama assets upload` (main.rs lines 590-693) and its part-size        *)
(* functions (lines 719-763).  Sizes are counted in KiB, the byte counts   *)
(* of the code divided by 1024.  The file sizes of the model are multiples *)
(* of 10000 KiB, for which div_ceil(file_size, 10_000) is a whole number   *)
(* of KiB, and the part sizes a server returns are whole KiB as well, so   *)
(* each operator computes exactly the code's result divided by 1024.       *)
(***************************************************************************)
\* Iterations of the upload loop followed.
MaxParts == 4

\* `const MB: u64 = 1024 * 1024`, in KiB.
MB == 1024

\* `10_000`, lines 616, 617 and 757.
PartLimit == 10000

\* Line 719.
div_ceil(n, d) == IF d = 0 THEN 0 ELSE (n + d - 1) \div d

\* Line 724.
clamp_part_size(bytes) ==
    IF bytes < 5 * MB THEN 5 * MB
    ELSE IF bytes > 95 * MB THEN 95 * MB
    ELSE bytes

\* Line 738, part_size_mb an Option.
choose_part_size(file_size, mb) ==
    IF mb # None
    THEN clamp_part_size(mb[1] * MB)
    ELSE LET heuristic ==
                 IF file_size >= 8 * 1024 * MB THEN 64 * MB
                 ELSE IF file_size >= 512 * MB THEN 32 * MB
                 ELSE IF file_size >= 64 * MB THEN 16 * MB
                 ELSE 8 * MB
             min_required == div_ceil(file_size, PartLimit)
             part == IF heuristic < min_required THEN min_required
                     ELSE heuristic
         IN  clamp_part_size(part)

\* Lines 612-619: the part size put into the create request.
RequestPartSize(size, mb) ==
    LET chosen == choose_part_size(size, mb)
    IN  IF div_ceil(size, chosen) > PartLimit
        THEN clamp_part_size(div_ceil(size, PartLimit))
        ELSE chosen

\* File sizes, in KiB: empty, around each threshold of the heuristic, around
\* 10000 parts of 5, 8, 64 and 95 MiB.
FileSizes ==
    {0, 10000, 60000, 70000, 520000, 530000, 8380000, 8390000,
     PartLimit * 5 * MB, PartLimit * 5 * MB + 10000,
     PartLimit * 8 * MB, PartLimit * 8 * MB + 10000,
     PartLimit * 64 * MB, PartLimit * 64 * MB + 10000,
     PartLimit * 95 * MB, PartLimit * 95 * MB + 10000}

\* Values of --part-size-mb.
PartSizeMbs == {None} \cup {Some(mb) : mb \in {0, 1, 5, 8, 95, 96, 4096}}

\* Values of upload_part_size a server may return (a u64; the code accepts
\* any): zero, one KiB, the size asked for, sizes that split the file in
\* two or three parts, the whole file, more than the file.
ServerPartSizes(size, asked) ==
    {0, 1, asked, div_ceil(size, 3), div_ceil(size, 2), size, size + MB}

StatError == "stat"
CreateError == "create asset"
OpenError == "open"
ReadPartError == "read part"
UploadPartError == "upload part"
CompleteError == "complete multipart upload"

\* `?`: the command returns the error.
UploadFail(msg) ==
    /\ up_pc' = "failed"
    /\ up_error' = Some(msg)

InitUpload ==
    /\ LoginIdle
    /\ PkceIdle
    /\ ReadIdle
    /\ up_pc = "stat"
    /\ byte_size = 0
    /\ part_size_mb \in PartSizeMbs
    /\ part_size = None
    /\ upload_part_size = None
    /\ remaining = 0
    /\ part_number = 1
    /\ up_buf = None
    /\ parts = <<>>
    /\ completes = 0
    /\ up_error = None

\* Lines 598-604: the file's metadata; byte_size = meta.len().
StatFile ==
    /\ up_pc = "stat"
    /\ \/ /\ \E size \in FileSizes : byte_size' = size
          /\ up_pc' = "choose"
          /\ UNCHANGED up_error
       \/ /\ UploadFail(StatError)
          /\ UNCHANGED byte_size
    /\ UNCHANGED <<loginVars, pkceVars, readVars, part_size_mb, part_size,
                   upload_part_size, remaining, part_number, up_buf, parts,
                   completes>>

\* Lines 612-619.
ChoosePartSize ==
    /\ up_pc = "choose"
    /\ part_size' = Some(RequestPartSize(byte_size, part_size_mb))
    /\ up_pc' = "create"
    /\ UNCHANGED <<loginVars, pkceVars, readVars, byte_size, part_size_mb,
                   upload_part_size, remaining, part_number, up_buf, parts,
                   completes, up_error>>

\* Line 632: POST /api/assets; the reply carries upload_part_size.
CreateAsset ==
    /\ up_pc = "create"
    /\ \/ /\ \E ups \in ServerPartSizes(byte_size, part_size[1]) :
                upload_part_size' = Some(ups)
          /\ up_pc' = "open"
          /\ UNCHANGED up_error
       \/ /\ UploadFail(CreateError)
          /\ UNCHANGED upload_part_size
    /\ UNCHANGED <<loginVars, pkceVars, readVars, byte_size, part_size_mb,
                   part_size, remaining, part_number, up_buf, parts,
                   completes>>

\* Lines 645-651: open the file, initialise the loop's variables.
OpenFile ==
    /\ up_pc = "open"
    /\ \/ /\ remaining' = byte_size
          /\ part_number' = 1
          /\ up_pc' = "loop"
          /\ UNCHANGED up_error
       \/ /\ UploadFail(OpenError)
          /\ UNCHANGED <<remaining, part_number>>
    /\ UNCHANGED <<loginVars, pkceVars, readVars, byte_size, part_size_mb,
                   part_size, upload_part_size, up_buf, parts, completes>>

\* Lines 653-658: `while remaining > 0`, this_size, read_exact into buf.
\* read_exact fails when the file has become shorter than byte_size.
ReadPart ==
    /\ up_pc = "loop"
    /\ remaining > 0
    /\ part_number <= MaxParts
    /\ \/ /\ up_buf' = Some(Min(upload_part_size[1], remaining))
          /\ up_pc' = "put"
          /\ UNCHANGED up_error
       \/ /\ UploadFail(ReadPartError)
          /\ UNCHANGED up_buf
    /\ UNCHANGED <<loginVars, pkceVars, readVars, byte_size, part_size_mb,
                   part_size, upload_part_size, remaining, part_number,
                   parts, completes>>

\* Mutant of PutPart: a failed PUT is skipped and the loop goes on.
PutPart_IgnoreFailure ==
    /\ up_pc = "put"
    /\ \/ parts' = Append(parts, [number |-> part_number, size |-> up_buf[1]])
       \/ UNCHANGED parts
    /\ remaining' = remaining - up_buf[1]
    /\ part_number' = part_number + 1
    /\ up_buf' = None
    /\ up_pc' = "loop"
    /\ UNCHANGED <<loginVars, pkceVars, readVars, byte_size, part_size_mb,
                   part_size, upload_part_size, completes, up_error>>

\* Lines 660-677: PUT .../parts/{part_number} with buf, then
\* `remaining -= this_size` and `part_number += 1`.
PutPart ==
    /\ up_pc = "put"
    /\ \/ /\ parts' =
                Append(parts, [number |-> part_number, size |-> up_buf[1]])
          /\ remaining' = remaining - up_buf[1]
          /\ part_number' = part_number + 1
          /\ up_buf' = None
          /\ up_pc' = "loop"
          /\ UNCHANGED up_error
       \/ /\ UploadFail(UploadPartError)
          /\ UNCHANGED <<parts, remaining, part_number, up_buf>>
    /\ UNCHANGED <<loginVars, pkceVars, readVars, byte_size, part_size_mb,
                   part_size, upload_part_size, completes>>

\* Lines 680-686: the loop has ended; POST .../complete.
CompleteUpload ==
    /\ up_pc = "loop"
    /\ remaining = 0
    /\ completes' = completes + 1
    /\ \/ up_pc' = "done" /\ UNCHANGED up_error
       \/ UploadFail(CompleteError)
    /\ UNCHANGED <<loginVars, pkceVars, readVars, byte_size, part_size_mb,
                   part_size, upload_part_size, remaining, part_number,
                   up_buf, parts>>

NextUpload ==
    \/ StatFile
    \/ ChoosePartSize
    \/ CreateAsset
    \/ OpenFile
    \/ ReadPart
    \/ PutPart
    \/ CompleteUpload

SpecUpload == InitUpload /\ [][NextUpload]_vars

(***************************************************************************)
(* Properties.  `cur` and `resp` are reset together by Accept, so whenever *)
(* resp # None it is the response written to the connection that sent cur. *)
(***************************************************************************)
\* The current connection has been answered (lines 136-182 have run).
Answered == cur # None /\ resp # None

\* The current request is a GET whose path is exactly /callback.
IsGetCallback == cur[1].method = "GET" /\ cur[1].path = CallbackPath

\* The step that answers the current connection / the step that follows it.
RespondStep == lpc = "respond" /\ lpc' = "finish"
FinishStep == lpc = "finish" /\ lpc' # "finish"

\* The attempt is still waiting for the callback and the loop still listens.
StillListening == lpc' = "accept" /\ listener_open' /\ UNCHANGED <<opc, error, code>>

\* C1: a GET /callback whose state is absent or differs from the expected
\* state is answered with the state-mismatch page whatever its code is;
\* nothing is sent on the handoff and the loop goes back to accept, the
\* attempt's wait being left as it was.
C1_StateMismatchRejected ==
    [][/\ (RespondStep /\ IsGetCallback
             /\ QueryParam(cur[1].query, "state") # state)
          => /\ resp' = Some(HttpResponse(StateMismatchPage))
             /\ send_ok' = None
             /\ UNCHANGED <<sent, chan>>
       /\ (FinishStep /\ IsGetCallback
             /\ QueryParam(cur[1].query, "state") # state)
          => /\ StillListening
             /\ UNCHANGED <<sent, chan>>]_vars

\* C1 witness: a GET /callback with a wrong state and a code has been
\* answered with the mismatch page and the loop is accepting again while
\* the orchestrator still waits.
C1_Witness ==
    /\ Answered /\ IsGetCallback
    /\ QueryParam(cur[1].query, "state") \notin {None, state}
    /\ QueryParam(cur[1].query, "code") = Some("abc")
    /\ resp = Some(HttpResponse(StateMismatchPage))
    /\ lpc = "accept" /\ opc = "await" /\ sent = <<>>

\* C2 (as claimed): the code handed to the orchestrator is the code of the
\* first valid callback (GET /callback, matching state, code present) the
\* listener answered.
C2_FirstValidCallbackDelivered ==
    /\ code # None => code = first_valid
    /\ \A i \in 1..Len(sent) : sent[i].ok => first_valid = Some(sent[i].val)

\* C3: the one-shot handoff is filled at most once: at most one value is
\* ever passed to tx.send, the slot holds nothing but that value, and the
\* sender is gone once it has been used.
C3_HandoffFilledAtMostOnce ==
    /\ Len(sent) <= 1
    /\ chan # None => sent = <<chan[1]>>
    /\ sent # <<>> => tx = None /\ lpc = "returned"

\* C3 witness: a value has been sent while further connections could
\* still arrive.
C3_Witness == Len(sent) = 1 /\ sent[1].ok /\ nconn < MaxConns

\* C4 (as claimed): once the wait has ended with the timeout, the accept
\* loop accepts, reads and answers no further connection.
C4_NoConnectionAfterTimeout ==
    [][error = Some(TimeoutError)
          => UNCHANGED <<nconn, answered, cur, resp>>]_vars

\* C5: once a connection has been resolved (send_ok is Some), the loop
\* accepts and answers nothing more: its only step is to return, and with
\* that the listener is dropped.
C5_LoopEndsAfterResolved ==
    [][send_ok # None
          => /\ UNCHANGED <<nconn, answered, cur, resp, send_ok>>
             /\ lpc' \in {"finish", "returned"}
             /\ lpc' = "returned" => ~listener_open'
             /\ lpc = "returned" => ~listener_open]_vars

\* C5 witness: a valid callback was resolved, the task has returned and
\* the environment still has connections to make.
C5_Witness ==
    /\ Answered /\ IsValidCallback(cur[1], state[1])
    /\ lpc = "returned" /\ sent = <<Ok(send_ok[1])>>
    /\ nconn < MaxConns /\ ~listener_open

C7_NonCallbackNotFound ==
    (Answered /\ ~IsGetCallback)
       => /\ resp = Some(HttpResponse(NotFoundPage))
          /\ send_ok = None

\* C8: a GET /callback with the expected state and no code is answered
\* with the missing-code page; nothing is sent and the loop goes back to
\* accept.
C8_MissingCodeRejected ==
    [][/\ (RespondStep /\ IsGetCallback
             /\ QueryParam(cur[1].query, "state") = state
             /\ QueryParam(cur[1].query, "code") = None)
          => /\ resp' = Some(HttpResponse(MissingCodePage))
             /\ send_ok' = None
             /\ UNCHANGED <<sent, chan>>
       /\ (FinishStep /\ IsGetCallback
             /\ QueryParam(cur[1].query, "state") = state
             /\ QueryParam(cur[1].query, "code") = None)
          => /\ StillListening
             /\ UNCHANGED <<sent, chan>>]_vars

\* C8 witness: such a request has been answered with the missing-code page
\* and the loop is accepting again while the orchestrator still waits.
C8_Witness ==
    /\ Answered /\ IsGetCallback
    /\ QueryParam(cur[1].query, "state") = state
    /\ QueryParam(cur[1].query, "code") = None
    /\ resp = Some(HttpResponse(MissingCodePage))
    /\ lpc = "accept" /\ opc = "await" /\ sent = <<>>

\* C9 (as claimed): the wait ends only with a delivered code or with
\* TimeoutError.
C9_WaitEndsWithCodeOrTimeout ==
    [][(opc = "await" /\ opc' # "await")
          => \/ opc' = "exchange" /\ code' # None /\ error' = None
             \/ error' = Some(TimeoutError)]_vars

\* C9 (amended): the wait ends only with a delivered code, with
\* TimeoutError, or with the accept-failure error the loop sends when
\* listener.accept() fails; a connection that resolves nothing (rejected
\* or unreadable) sends nothing and leaves the wait as it was.
C9_WaitEndsWithCodeTimeoutOrAcceptError ==
    [][/\ (opc = "await" /\ opc' # "await")
          => \/ opc' = "exchange" /\ code' # None /\ error' = None
             \/ error' = Some(TimeoutError)
             \/ error' = Some(AcceptError) /\ sent = <<Err(AcceptError)>>
       /\ (FinishStep /\ send_ok = None)
          => /\ UNCHANGED <<sent, chan, opc, error, code>>
             /\ lpc' = "accept"]_vars

\* C9 witness: after a rejected connection, a failed accept has ended the
\* wait with the accept-failure error.
C9_Witness ==
    /\ error = Some(AcceptError) /\ opc = "failed"
    /\ answered >= 1 /\ first_valid = None

\* C10: the redirect_uri of the token request equals, byte for byte as
\* encoded, the redirect_uri of the authorization URL, and both carry the
\* port the listener was bound to.
C10_RedirectUriIdentical ==
    \A i \in 1..Len(token_requests) :
       LET sentUri == QueryParam(token_requests[i].body, "redirect_uri")
           authUri == QueryParam(auth_url[1].query, "redirect_uri")
       IN  /\ auth_url # None
           /\ sentUri # None
           /\ sentUri = authUri
           /\ sentUri = Some(FormEncode(redirect_uri[1]))
           /\ \E k \in 1..Len(sentUri[1]) : sentUri[1][k] = port[1]

\* C10 witness: a token request has been sent.
C10_Witness ==
    /\ Len(token_requests) = 1
    /\ port # None
    /\ QueryParam(token_requests[1].body, "code") = Some(<<"abc">>)

\* C11: within one login attempt the state nonce, the verifier and the
\* challenge, once generated, never change; the state the listener checks
\* callbacks against is the state in the authorization URL; and the
\* code_verifier of the token request is the verifier whose S256 challenge
\* is the authorization URL's code_challenge.
C11_SecretsGeneratedOnceUsedConsistently ==
    [][/\ state # None => state' = state
       /\ verifier # None => verifier' = verifier
       /\ challenge # None => challenge' = challenge
       /\ expected_state' # None
          => /\ expected_state' = state'
             /\ QueryParam(auth_url'[1].query, "state")
                   = Some(FormEncode(expected_state'))
       /\ auth_url' # None
          => /\ QueryParam(auth_url'[1].query, "state")
                   = Some(FormEncode(state'))
             /\ QueryParam(auth_url'[1].query, "code_challenge")
                   = Some(FormEncode(pkce_challenge_s256(verifier'[1])))
       /\ \A i \in 1..Len(token_requests') :
             LET ver == QueryParam(token_requests'[i].body, "code_verifier")
             IN  /\ ver = Some(FormEncode(verifier'))
                 /\ \E v \in Verifiers :
                       /\ ver = Some(FormEncode(<<v>>))
                       /\ QueryParam(auth_url'[1].query, "code_challenge")
                             = Some(FormEncode(pkce_challenge_s256(v)))
      ]_vars

\* C11 witness: callbacks were checked against the state and the token
\* request carrying the verifier has been sent.
C11_Witness ==
    /\ expected_state # None /\ expected_state = state
    /\ answered >= 1
    /\ Len(token_requests) = 1
    /\ QueryParam(token_requests[1].body, "code_verifier") = Some(verifier)

\* C12: with no registration_endpoint in the metadata and no cached client
\* id, the attempt fails with RegistrationUnsupportedError, and it does so
\* before any registration or token request is sent, before the
\* authorization URL is built, opened or printed, and before a listener is
\* bound or spawned.
C12_RegistrationUnsupportedFailsFirst ==
    LET unsupported == /\ existing_client_id = None
                       /\ meta.registration_endpoint = None
                       /\ opc # "resolve_client"
    IN  /\ unsupported <=> error = Some(RegistrationUnsupportedError)
        /\ unsupported
           => /\ opc \in {"failed", "exited"}
              /\ client_id = None
              /\ reg_requests = <<>>
              /\ token_requests = <<>>
              /\ auth_url = None
              /\ browser = "none"
              /\ port = None
              /\ redirect_uri = None
              /\ ~listener_open
              /\ lpc = "unspawned"
              /\ nconn = 0
              /\ login_result = None

\* C12 witness: the attempt has failed with RegistrationUnsupportedError.
C12_Witness ==
    /\ existing_client_id = None
    /\ meta.registration_endpoint = None
    /\ error = Some(RegistrationUnsupportedError)
    /\ opc = "failed"

\* C13: when a cached client id is supplied, no registration request is
\* sent, with or without a registration_endpoint in the metadata, and the
\* client_id of the authorization URL, of the token request and of the
\* returned LoginResult is that cached id.
C13_CachedClientIdUsedUnchanged ==
    existing_client_id # None
    => /\ reg_requests = <<>>
       /\ client_id \in {None, existing_client_id}
       /\ auth_url # None
          => QueryParam(auth_url[1].query, "client_id")
                = Some(FormEncode(existing_client_id))
       /\ \A i \in 1..Len(token_requests) :
             QueryParam(token_requests[i].body, "client_id")
                = Some(FormEncode(existing_client_id))
       /\ login_result # None
          => login_result[1].client_id = existing_client_id[1]

\* C13 witness: a login with a cached client id, against metadata that
\* has a registration_endpoint, has returned its LoginResult.
C13_Witness ==
    /\ existing_client_id = Some("cached-client")
    /\ meta.registration_endpoint # None
    /\ Len(token_requests) = 1
    /\ login_result # None
    /\ login_result[1].client_id = "cached-client"

\* C14: once an earlier invocation of login has obtained a client id by
\* dynamic registration, a later invocation is given that client id and
\* sends no registration request, whatever the outcome of the invocation
\* that obtained it.
C14_RegisteredClientReused ==
    (attempt > 1 /\ prior_registered # None)
    => /\ existing_client_id = prior_registered
       /\ reg_requests = <<>>
       /\ client_id \in {None, prior_registered}

\* C15: every 2xx token response whose token_type is present and is not
\* "bearer" in any letter case fails the attempt with
\* UnexpectedTokenTypeError, also when the body carries no access_token,
\* as {"token_type":"mac"} does.
C15_NonBearerIsUnexpectedTokenType ==
    (/\ token_reply # None
     /\ token_reply[1].transport
     /\ token_reply[1].success
     /\ token_reply[1].json # None
     /\ token_reply[1].json[1].token_type # None
     /\ ToLowercase(token_reply[1].json[1].token_type[1]) # "bearer")
    => error = Some(UnexpectedTokenTypeError)

\* C16: a 2xx token response that has an access_token and whose token_type
\* is Bearer, bearer or BEARER makes the attempt succeed with
\* LoginResult.access_token equal to the returned access_token, whether or
\* not the token starts with gdm_; a token without that prefix only raises
\* the warning.
C16_BearerTokenAccepted ==
    (/\ token_reply # None
     /\ token_reply[1].transport
     /\ token_reply[1].success
     /\ token_reply[1].json # None
     /\ token_reply[1].json[1].access_token # None
     /\ token_reply[1].json[1].token_type # None
     /\ token_reply[1].json[1].token_type[1] \in {"Bearer", "bearer", "BEARER"})
    => /\ opc \in {"done", "exited"}
       /\ error = None
       /\ login_result # None
       /\ login_result[1].access_token = token_reply[1].json[1].access_token[1]
       /\ login_result[1].token_type = token_reply[1].json[1].token_type[1]
       /\ warned = ~LooksLikeApiKey(login_result[1].access_token)
       /\ opc = "exited" => cfg_access_token = Some(login_result[1].access_token)

\* C16 witness: the token tok123 came with token_type BEARER; the login
\* succeeded with the warning.
C16_Witness ==
    /\ token_reply # None
    /\ token_reply[1].json = Some([access_token |-> Some(<<"tok123">>),
                                   token_type |-> Some("BEARER")])
    /\ opc = "done"
    /\ warned
    /\ login_result[1].access_token = <<"tok123">>

StageOrder ==
    <<"resolve_client", "bind", "secrets", "auth_url", "browser",
      "call_wait", "await", "exchange", "done">>

StageIndex(s) == CHOOSE i \in 1..Len(StageOrder) : StageOrder[i] = s

\* C18: the stages of an attempt occur in the order resolve client, bind
\* listener, build authorization URL, launch or print the URL, await the
\* callback, token exchange: a stage is entered only from the one before
\* it, each stage's effect happens in its own stage, the listener is bound
\* and open when the URL is opened or printed, and the token request is
\* sent only after the listener has delivered a code, which it carries.
C18_StagesInOrder ==
    [][/\ opc' # opc
          => \/ /\ opc \in {"done", "failed"}
                /\ opc' = "exited"
             \/ /\ opc \notin {"done", "failed", "exited"}
                /\ \/ opc' = "failed"
                   \/ StageIndex(opc') = StageIndex(opc) + 1
       /\ client_id' # client_id => opc = "resolve_client"
       /\ reg_requests' # reg_requests => opc = "resolve_client"
       /\ port' # port => opc = "bind" /\ client_id # None
       /\ auth_url' # auth_url
          => opc = "auth_url" /\ port # None /\ listener_open
       /\ browser' # browser
          => /\ opc = "browser"
             /\ auth_url # None
             /\ port # None
             /\ listener_open
             /\ lpc = "unspawned"
       /\ lpc # lpc' /\ lpc = "unspawned"
          => opc = "call_wait" /\ browser # "none"
       /\ code' # code
          => /\ opc = "await"
             /\ sent = <<Ok(code'[1])>>
             /\ token_requests = <<>>
       /\ token_requests' # token_requests
          => /\ opc = "exchange"
             /\ code # None
             /\ sent = <<Ok(code[1])>>
             /\ browser # "none"
             /\ QueryParam(token_requests'[1].body, "code")
                   = Some(FormEncode(code))
      ]_vars

\* C18 witness: an attempt that went through every stage: registered,
\* bound, URL opened, code delivered by the listener, token request sent.
C18_Witness ==
    /\ opc = "done"
    /\ reg_requests # <<>>
    /\ port # None
    /\ browser = "opened"
    /\ sent = <<Ok(code[1])>>
    /\ Len(token_requests) = 1

\* C19: every connection the accept loop has handled got exactly one
\* response, with status 200 OK and Connection: close, after which its
\* socket is shut down, whatever was read from it: while a connection is
\* being read it has no response yet, and from the write on the responses
\* written equal the connections accepted.  (A connection still being read
\* when the process exits is dropped with the task.)
C19_OneResponsePerConnection ==
    /\ lpc \in {"unspawned", "accept", "finish", "returned"}
       => answered = nconn
    /\ lpc \in {"read", "respond"}
       => answered = nconn - 1 /\ resp = None /\ socket_open
    /\ lpc = "aborted" => answered \in {nconn - 1, nconn}
    /\ lpc = "finish" => resp # None
    /\ resp # None
       => /\ cur # None /\ cur[1] \in Requests
          /\ resp[1].status = "200 OK"
          /\ resp[1].connection = "close"
          /\ resp[1].content_type = "text/html; charset=utf-8"
          /\ resp[1].body = HandleRequest(cur[1], expected_state[1]).html
          /\ ~socket_open

\* C19 witness: two connections were answered, the second of which sent
\* nothing (zero bytes or a read error).
C19_Witness ==
    /\ nconn = 2 /\ answered = 2
    /\ cur = Some(EmptyRequest)
    /\ resp # None /\ resp[1].status = "200 OK"
    /\ ~socket_open

RECURSIVE SextetsToBytes(_)
SextetsToBytes(x) ==
    IF Len(x) < 2 THEN <<>>
    ELSE IF Len(x) = 2
    THEN <<(x[1] * 4) + (x[2] \div 16)>>
    ELSE IF Len(x) = 3
    THEN <<(x[1] * 4) + (x[2] \div 16), ((x[2] % 16) * 16) + (x[3] \div 4)>>
    ELSE <<(x[1] * 4) + (x[2] \div 16), ((x[2] % 16) * 16) + (x[3] \div 4),
           ((x[3] % 4) * 64) + x[4]>>
         \o SextetsToBytes(SubSeq(x, 5, Len(x)))

Base64UrlChars == {Base64UrlAlphabet[i] : i \in 1..Len(Base64UrlAlphabet)}

Base64UrlDecode(str) ==
    SextetsToBytes([i \in 1..Len(str) |->
        (CHOOSE k \in 1..Len(Base64UrlAlphabet) : Base64UrlAlphabet[k] = str[i]) - 1])

\* C21: every generated verifier has 86 characters, within [43, 128], all
\* of [A-Za-z0-9_-], and decodes to the 64 random bytes; every challenge is
\* the unpadded base64url encoding of the SHA-256 digest of the verifier's
\* bytes (43 characters of the same alphabet, decoding to the digest).
C21_PkcePairWellFormed ==
    /\ pk_verifier # None
       => /\ Len(pk_verifier[1]) >= 43 /\ Len(pk_verifier[1]) <= 128
          /\ Len(pk_verifier[1]) = 86
          /\ \A i \in 1..Len(pk_verifier[1]) :
                pk_verifier[1][i] \in Base64UrlChars
          /\ Len(pk_buf[1]) = 64
          /\ Base64UrlDecode(pk_verifier[1]) = pk_buf[1]
    /\ pk_challenge # None
       => /\ Len(pk_challenge[1]) = 43
          /\ \A i \in 1..Len(pk_challenge[1]) :
                pk_challenge[1][i] \in Base64UrlChars
          /\ Base64UrlDecode(pk_challenge[1]) = Sha256(AsBytes(pk_verifier[1]))

\* C21 witness: a pair has been generated from random bytes that are not
\* all equal.
C21_Witness ==
    /\ pk_pc = "done"
    /\ pk_verifier # None /\ pk_challenge # None
    /\ pk_buf[1][1] # pk_buf[1][2]

\* C22: the browser step never fails the attempt.  With no_open the URL is
\* printed; otherwise the browser is opened, and if that fails the URL is
\* printed.  In all three cases the step changes nothing else, records no
\* error and goes on to the wait, which is started in the same way
\* whatever the step did.
C22_BrowserStepNeverFatal ==
    [][/\ opc = "browser"
          => /\ opc' = "call_wait"
             /\ error = None /\ error' = None
             /\ no_open => browser' = "printed"
             /\ ~no_open => browser' \in {"opened", "open_failed_printed"}
             /\ UNCHANGED <<auth_url, listener_open, port, redirect_uri,
                            secretVars, clientVars, lpc, chanVars,
                            connVars, code, token_requests>>
       /\ opc = "call_wait"
          => /\ browser \in {"printed", "opened", "open_failed_printed"}
             /\ opc' = "await"
             /\ lpc' = "accept"
             /\ expected_state' = state
             /\ rx_alive'
             /\ listener_open'
             /\ UNCHANGED <<browser, error, auth_url>>
      ]_vars

\* C22 witness: the browser could not be opened, the URL was printed, and
\* the login went on to succeed.
C22_Witness ==
    /\ ~no_open
    /\ browser = "open_failed_printed"
    /\ opc = "done"
    /\ login_result # None

\* C23: a connection that neither sends the header terminator nor closes
\* does not block the flow: a valid callback that connected during the
\* wait, behind such a connection, is answered and honored, so the attempt
\* does not end with the timeout while that callback is still waiting.
C23_StalledConnectionDoesNotBlock ==
    (/\ stalled
     /\ backlog # None
     /\ IsValidCallback(backlog[1], expected_state[1]))
    => error # Some(TimeoutError)

\* The orchestrator's wait has ended (the loop was spawned and the
\* orchestrator is past line 197).
WaitEnded == lpc # "unspawned" /\ opc # "await"

\* C24: the wait for the callback always terminates, whatever connections
\* do (none, only rejected ones, one that stalls for ever), and when it has
\* ended there is either a delivered code or the timeout error.
C24_WaitTerminatesCodeOrTimeout ==
    /\ (opc = "await") ~> (opc # "await")
    /\ [](WaitEnded => (code # None \/ error = Some(TimeoutError)))

\* C24 as amended: the wait always terminates, and when it has ended there
\* is a delivered code, the timeout error, or the error the loop sends
\* when listener.accept() fails.
C24_WaitTerminatesCodeTimeoutOrAcceptError ==
    /\ (opc = "await") ~> (opc # "await")
    /\ [](WaitEnded
          => \/ code # None /\ sent = <<Ok(code[1])>>
             \/ error = Some(TimeoutError)
             \/ error = Some(AcceptError))

\* C24 witness: with a connection stalled for ever, the wait has ended
\* with the timeout.
C24_Witness ==
    /\ stalled /\ lpc = "read"
    /\ nconn = 1 /\ answered = 0
    /\ opc = "failed"
    /\ error = Some(TimeoutError)


\* The stop condition the loop has met with n bytes held, judged from the
\* stream itself: the first CRLFCRLF lies within the first n bytes, or the
\* buffer is full.
TerminatorInBytesRead == rd_term # None /\ rd_term[1] <= rd_n

ReadLoopShape ==
    /\ rd_n <= 16384
    /\ rd_n + rd_avail = rd_sent
    /\ rd_pc = "reading" =>
          /\ ~TerminatorInBytesRead
          /\ rd_n < 16384
          /\ rd_why = "none"
    /\ rd_pc = "stopped" =>
          /\ rd_why \in {"terminator", "full", "closed", "error"}
          /\ rd_why = "terminator" => TerminatorInBytesRead
          /\ rd_why = "full" => rd_n = 16384 /\ ~TerminatorInBytesRead
          /\ rd_why = "closed" =>
                rd_closed /\ rd_avail = 0 /\ ~TerminatorInBytesRead
                    /\ rd_n < 16384
          /\ rd_why = "error" => ~TerminatorInBytesRead /\ rd_n < 16384

\* C25: the read loop of a connection goes on only while no CRLFCRLF lies
\* in the bytes read so far, fewer than 16384 bytes are held and no read has
\* returned Ok(0) or an error; it stops at the first of these, for that
\* reason; it never holds more than 16384 bytes; and once it has stopped,
\* nothing more is read, whatever the peer still sends.
C25_ReadLoopStopsAtFirstCondition ==
    /\ []ReadLoopShape
    /\ [][rd_pc = "stopped" =>
              /\ rd_pc' = "stopped"
              /\ rd_n' = rd_n
              /\ rd_reads' = rd_reads
              /\ rd_why' = rd_why
              /\ rd_avail' >= rd_avail]_vars

\* The buffer has filled without a terminator, and bytes the peer sent
\* afterwards are left unread.
C25_Witness ==
    /\ rd_pc = "stopped"
    /\ rd_why = "full"
    /\ rd_n = 16384
    /\ rd_reads > 1
    /\ rd_avail > 0
    /\ rd_term # None

\* C26: a code is handed to the orchestrator only by a connection whose
\* response has been written (or its write attempted) and whose socket has
\* been shut down; a token request therefore exists only after that
\* attempt; and the hand-over step sends the code whether the write
\* succeeded or failed.
C26_ResponseAttemptedBeforeHandOver ==
    /\ [](token_requests # <<>> =>
              /\ resp # None
              /\ write_ok # None
              /\ ~socket_open
              /\ sent # <<>>)
    /\ [][/\ (Len(sent') > Len(sent) /\ sent'[Len(sent')].ok) =>
                /\ lpc = "finish"
                /\ resp # None
                /\ write_ok # None
                /\ ~socket_open
                /\ resp[1].body = success_html
          /\ (lpc = "finish" /\ lpc' # "finish" /\ send_ok # None) =>
                /\ sent' = Append(sent, Ok(send_ok[1]))
                /\ rx_alive => chan' = Some(Ok(send_ok[1]))]_vars

\* The write of the success page failed, and the code was still delivered
\* and used for the token request.
C26_Witness ==
    /\ write_ok = Some(FALSE)
    /\ send_ok # None
    /\ code = send_ok
    /\ token_requests # <<>>
    /\ QueryParam(token_requests[1].body, "code") = Some(FormEncode(code))

\* The request being answered is GET /callback with the expected state and
\* an empty code parameter.
EmptyCodeCallback ==
    /\ cur # None
    /\ cur[1].method = "GET"
    /\ cur[1].path = CallbackPath
    /\ QueryParam(cur[1].query, "state") = expected_state
    /\ QueryParam(cur[1].query, "code") = Some("")

\* C27: a GET /callback with matching state and `code=` is answered with
\* the success page and sets the empty string as the code to send; the
\* connection's last step then sends Ok("") to the orchestrator, ends the
\* accept loop and drops the listener.
C27_EmptyCodeIsACode ==
    [][/\ (lpc = "respond" /\ lpc' = "finish" /\ EmptyCodeCallback) =>
              /\ resp' = Some(HttpResponse(success_html))
              /\ send_ok' = Some("")
       /\ (lpc = "finish" /\ lpc' # "finish" /\ EmptyCodeCallback) =>
              /\ send_ok = Some("")
              /\ sent' = Append(sent, Ok(""))
              /\ rx_alive => chan' = Some(Ok(""))
              /\ lpc' = "returned"
              /\ ~listener_open']_vars

\* The orchestrator has received the empty code from such a callback and
\* goes on to the token exchange with it.
C27_Witness ==
    /\ EmptyCodeCallback
    /\ lpc = "returned"
    /\ resp = Some(HttpResponse(success_html))
    /\ code = Some("")
    /\ opc = "exchange"

\* C28: once the part size of the create request has been computed, it lies
\* between 5 MiB and 95 MiB and the file splits into at most 10000 parts of
\* that size (byte_size <= 10000 * part_size).
C28_AtMostTenThousandParts ==
    part_size # None =>
        /\ part_size[1] >= 5 * 1024
        /\ part_size[1] <= 95 * 1024
        /\ byte_size <= 10000 * part_size[1]

RECURSIVE SumSizes(_)
SumSizes(ps) == IF ps = <<>> THEN 0 ELSE Head(ps).size + SumSizes(Tail(ps))

\* The parts uploaded so far are numbered 1, 2, ... and each has the size
\* min(upload_part_size, what remained before it).
PartsWellFormed ==
    \A i \in 1..Len(parts) :
        /\ parts[i].number = i
        /\ LET before == byte_size - SumSizes(SubSeq(parts, 1, i - 1))
           IN  parts[i].size =
                   IF upload_part_size[1] <= before THEN upload_part_size[1]
                   ELSE before

\* C29: the upload loop terminates, every iteration bringing it nearer to
\* its end (each part uploaded lowers `remaining`), and what it uploads are
\* parts numbered 1..k of size min(upload_part_size, remaining) each,
\* which add up to byte_size when the loop has ended.
C29_UploadLoopTerminates ==
    /\ [](/\ PartsWellFormed
          /\ up_pc \in {"loop", "put"} =>
                SumSizes(parts) + remaining = byte_size)
    /\ [](completes > 0 => SumSizes(parts) = byte_size)
    /\ [][(up_pc = "put" /\ up_pc' = "loop") => remaining' < remaining]_vars

\* C30: the complete request is posted only when the parts uploaded so far,
\* numbered 1, 2, ... in the order of their upload, cover the whole file and
\* nothing has failed; each part uploaded takes the next number; and once
\* reading or uploading a part has failed, no part is uploaded and no
\* complete request is posted.
C30_CompleteOnlyAfterAllParts ==
    /\ [](up_error \in {Some(ReadPartError), Some(UploadPartError)} =>
              completes = 0)
    /\ [][/\ completes' > completes =>
                /\ up_error = None
                /\ remaining = 0
                /\ SumSizes(parts) = byte_size
                /\ \A i \in 1..Len(parts) : parts[i].number = i
          /\ parts' # parts =>
                /\ Len(parts') = Len(parts) + 1
                /\ SubSeq(parts', 1, Len(parts)) = parts
                /\ parts'[Len(parts')].number = Len(parts) + 1
                /\ completes = 0
          /\ up_error # None =>
                /\ parts' = parts
                /\ completes' = completes]_vars

\* A file uploaded in three parts, followed by the one complete request.
C30_Witness ==
    /\ up_pc = "done"
    /\ Len(parts) = 3
    /\ parts[3].number = 3
    /\ SumSizes(parts) = byte_size
    /\ completes = 1

\* The upload of the second part failed: one part was uploaded, nothing
\* was completed.
C30_WitnessFailure ==
    /\ up_error = Some(UploadPartError)
    /\ Len(parts) = 1
    /\ completes = 0

=============================================================================
